---- MODULE Spec2Model ----
(***************************************************************************)
(* Model of Molinit/validator: the rules of the class Validator            *)
(* (src/Validator.ts) and the dispatcher validate (src/index.ts).          *)
(* JavaScript values are tagged records, the rules and the dispatcher are  *)
(* operators computed the way the code computes them, and every predicate  *)
(* invocation made during a call is recorded in `calls`.  Spec applies one *)
(* shape rule to one value; SpecValidate applies validate to a record and  *)
(* a schema.                                                               *)
(***************************************************************************)
EXTENDS Integers, Sequences, FiniteSets, TLC

VARIABLES pc, op, field, value, options, result, calls, input, schema, errors

vars == <<pc, op, field, value, options, result, calls, input, schema, errors>>

(***************************************************************************)
(* Bounds of the model.                                                    *)
(***************************************************************************)
MaxLen == 2   \* longest array passed to a validator
MaxNum == 1   \* numbers are 0..MaxNum

(***************************************************************************)
(* JavaScript values.  The tag t is JavaScript's own classification        *)
(* (undefined, null, string, number, boolean, array, object); an object's  *)
(* v is a function from the property names it has to their values.         *)
(***************************************************************************)
Undefined == [t |-> "undefined"]
Null == [t |-> "null"]
Str(s) == [t |-> "string", v |-> s]
Num(n) == [t |-> "number", v |-> n]
Bool(b) == [t |-> "boolean", v |-> b]
Arr(items) == [t |-> "array", v |-> items]
Obj(props) == [t |-> "object", v |-> props]

\* !value, with the number 0 taken for a value
Falsy_Mut(v) ==
    \/ v.t = "undefined"
    \/ v.t = "null"
    \/ v.t = "string" /\ v.v = ""
    \/ v.t = "boolean" /\ v.v = FALSE

\* !value
Falsy(v) ==
    \/ v.t = "undefined"
    \/ v.t = "null"
    \/ v.t = "string" /\ v.v = ""
    \/ v.t = "number" /\ v.v = 0
    \/ v.t = "boolean" /\ v.v = FALSE

\* typeof value
TypeOf(v) ==
    CASE v.t = "undefined" -> "undefined"
      [] v.t = "null" -> "object"
      [] v.t = "string" -> "string"
      [] v.t = "number" -> "number"
      [] v.t = "boolean" -> "boolean"
      [] v.t = "array" -> "object"
      [] v.t = "object" -> "object"

\* Array.isArray(value)
IsArray(v) == v.t = "array"

\* key in obj
HasKey(obj, key) == key \in DOMAIN obj.v

\* obj[key]
Get(obj, key) == IF HasKey(obj, key) THEN obj.v[key] ELSE Undefined

\* list.includes(x) for a list of strings and a string x
IncludesStr(list, x) == \E i \in 1..Len(list) : list[i] = x

\* list.includes(value) for a list of strings and any value
Includes(list, v) == v.t = "string" /\ IncludesStr(list, v.v)

\* list.join(sep) for a list of strings
RECURSIVE Join(_, _)
Join(list, sep) ==
    IF Len(list) = 0 THEN ""
    ELSE IF Len(list) = 1 THEN list[1]
    ELSE list[1] \o sep \o Join(Tail(list), sep)

(***************************************************************************)
(* Results of a call: undefined, a ValidationError, or a fault that        *)
(* escapes the call.                                                       *)
(***************************************************************************)
NoError == [kind |-> "undefined"]
ValidationError(f, m) == [kind |-> "error", field |-> f, message |-> m]
Propagated(m) == [kind |-> "throw", message |-> m]

Outcome(r, cs) == [result |-> r, calls |-> cs]

(***************************************************************************)
(* Descriptors.  shape is the sequence of Object.entries(shape); a type    *)
(* is a tag ([arr |-> FALSE, tag |-> ...]) or a list of strings            *)
(* ([arr |-> TRUE, items |-> ...]).  validators maps a property name to    *)
(* the name of a predicate, "none" when there is none.  An absent          *)
(* `required` and an empty one behave alike in the code (the guarded loop  *)
(* does not run), so required is a sequence.                               *)
(***************************************************************************)
Tag(s) == [arr |-> FALSE, tag |-> s]
List(items) == [arr |-> TRUE, items |-> items]

\* validators[key]
Validator(validators, key) ==
    IF key \in DOMAIN validators THEN validators[key] ELSE "none"

(***************************************************************************)
(* The predicates the model supplies: v => v, () => false,                 *)
(* () => { throw new Error('boom') }, () => { throw 'oops' }.              *)
(***************************************************************************)
CallPredicate(pred, arg) ==
    CASE pred = "identity" -> [kind |-> "return", v |-> arg]
      [] pred = "never" -> [kind |-> "return", v |-> Bool(FALSE)]
      [] pred = "throwError" -> [kind |-> "throw", isError |-> TRUE, message |-> "boom"]
      [] pred = "throwOther" -> [kind |-> "throw", isError |-> FALSE, message |-> "oops"]

CatchMessage(thrown) ==
    IF thrown.isError THEN thrown.message ELSE "Unknown error"

\* one entry of the invocation record: predicate of `key` (or _array) called
\* with arg while element `index` was examined (-1 outside any element)
Call(key, index, arg, out) == [key |-> key, index |-> index, arg |-> arg, out |-> out]

(***************************************************************************)
(* validate_shapeOf                                                        *)
(***************************************************************************)
\* typeof objValue !== 'object' || objValue === null || Array.isArray(objValue)
IsNotObject(v) == TypeOf(v) # "object" \/ v.t = "null" \/ IsArray(v)

\* the missing test without its empty-string clause
IsMissing_Mut(obj, key) ==
    \/ ~HasKey(obj, key)
    \/ Get(obj, key) = Undefined
    \/ Get(obj, key) = Null

\* !(key in obj) || obj[key] === undefined || obj[key] === null || obj[key] === ''
IsMissing(obj, key) ==
    \/ ~HasKey(obj, key)
    \/ Get(obj, key) = Undefined
    \/ Get(obj, key) = Null
    \/ Get(obj, key) = Str("")

\* the loop over `required` reporting the last missing name instead of the first
FirstMissing_Mut(obj, required) ==
    IF \E i \in 1..Len(required) : IsMissing(obj, required[i])
    THEN CHOOSE i \in 1..Len(required) :
            /\ IsMissing(obj, required[i])
            /\ \A j \in (i + 1)..Len(required) : ~IsMissing(obj, required[j])
    ELSE 0

\* the loop over `required`: the index of the first missing name, 0 if none
FirstMissing(obj, required) ==
    IF \E i \in 1..Len(required) : IsMissing(obj, required[i])
    THEN CHOOSE i \in 1..Len(required) :
            /\ IsMissing(obj, required[i])
            /\ \A j \in 1..(i - 1) : ~IsMissing(obj, required[j])
    ELSE 0

\* propValue === undefined || propValue === null
IsSkipped(propValue) == propValue = Undefined \/ propValue = Null

\* the type validation of validate_shapeOf with arrays given a type of their own
shapeOf_TypeCheck_Mut(f, key, expectedType, propValue) ==
    IF expectedType.arr
    THEN IF ~Includes(expectedType.items, propValue)
         THEN ValidationError(f, "Property \"" \o key \o "\" must be one of: "
                                  \o Join(expectedType.items, ", "))
         ELSE NoError
    ELSE IF (IF IsArray(propValue) THEN "array" ELSE TypeOf(propValue)) # expectedType.tag
         THEN ValidationError(f, "Property \"" \o key \o "\" must be of type "
                                  \o expectedType.tag \o ", got "
                                  \o (IF IsArray(propValue) THEN "array" ELSE TypeOf(propValue)))
         ELSE NoError

\* the type validation of validate_shapeOf letting every primitive tag pass
shapeOf_TypeCheck_Off(f, key, expectedType, propValue) ==
    IF expectedType.arr
    THEN IF ~Includes(expectedType.items, propValue)
         THEN ValidationError(f, "Property \"" \o key \o "\" must be one of: "
                                  \o Join(expectedType.items, ", "))
         ELSE NoError
    ELSE NoError

\* the type validation of one shape entry of validate_shapeOf
shapeOf_TypeCheck(f, key, expectedType, propValue) ==
    IF expectedType.arr
    THEN IF ~Includes(expectedType.items, propValue)
         THEN ValidationError(f, "Property \"" \o key \o "\" must be one of: "
                                  \o Join(expectedType.items, ", "))
         ELSE NoError
    ELSE IF TypeOf(propValue) # expectedType.tag
         THEN ValidationError(f, "Property \"" \o key \o "\" must be of type "
                                  \o expectedType.tag \o ", got " \o TypeOf(propValue))
         ELSE NoError

\* the custom validation of validate_shapeOf reporting at `field`, not `field.key`
shapeOf_Predicate_Mut(f, key, validators, propValue, cs) ==
    LET validatorFn == Validator(validators, key)
        out == CallPredicate(validatorFn, propValue)
        cs2 == Append(cs, Call(key, -1, propValue, out))
    IN  IF validatorFn # "none"
        THEN IF out.kind = "return"
             THEN IF Falsy(out.v)
                  THEN Outcome(ValidationError(f,
                           "Property \"" \o key \o "\" failed custom validation"), cs2)
                  ELSE Outcome(NoError, cs2)
             ELSE Outcome(ValidationError(f,
                           "Property \"" \o key \o "\" validation error: "
                           \o CatchMessage(out)), cs2)
        ELSE Outcome(NoError, cs)

\* the custom validation of validate_shapeOf without its try/catch
shapeOf_Predicate_NoCatch(f, key, validators, propValue, cs) ==
    LET validatorFn == Validator(validators, key)
        out == CallPredicate(validatorFn, propValue)
        cs2 == Append(cs, Call(key, -1, propValue, out))
    IN  IF validatorFn # "none"
        THEN IF out.kind = "return"
             THEN IF Falsy(out.v)
                  THEN Outcome(ValidationError(f \o "." \o key,
                           "Property \"" \o key \o "\" failed custom validation"), cs2)
                  ELSE Outcome(NoError, cs2)
             ELSE Outcome(Propagated(out.message), cs2)
        ELSE Outcome(NoError, cs)

\* the custom validation of one shape entry of validate_shapeOf
shapeOf_Predicate(f, key, validators, propValue, cs) ==
    LET validatorFn == Validator(validators, key)
        out == CallPredicate(validatorFn, propValue)
        cs2 == Append(cs, Call(key, -1, propValue, out))
    IN  IF validatorFn # "none"
        THEN IF out.kind = "return"
             THEN IF Falsy(out.v)
                  THEN Outcome(ValidationError(f \o "." \o key,
                           "Property \"" \o key \o "\" failed custom validation"), cs2)
                  ELSE Outcome(NoError, cs2)
             ELSE Outcome(ValidationError(f \o "." \o key,
                           "Property \"" \o key \o "\" validation error: "
                           \o CatchMessage(out)), cs2)
        ELSE Outcome(NoError, cs)

\* the loop over Object.entries(shape), from entry i on
RECURSIVE shapeOf_Entries(_, _, _, _, _)
shapeOf_Entries(f, obj, opts, i, cs) ==
    IF i > Len(opts.shape) THEN Outcome(NoError, cs)
    ELSE LET key == opts.shape[i].key
             expectedType == opts.shape[i].type
             propValue == Get(obj, key)
             typeErr == shapeOf_TypeCheck(f, key, expectedType, propValue)
             p == shapeOf_Predicate(f, key, opts.validators, propValue, cs)
         IN  IF IsSkipped(propValue)
             THEN IF IncludesStr(opts.required, key)
                  THEN Outcome(ValidationError(f, "Missing required property: " \o key), cs)
                  ELSE shapeOf_Entries(f, obj, opts, i + 1, cs)
             ELSE IF typeErr # NoError THEN Outcome(typeErr, cs)
             ELSE IF p.result # NoError THEN p
             ELSE shapeOf_Entries(f, obj, opts, i + 1, p.calls)

\* the not-an-object error with the message of validate_arrayOfShapes
shapeOf_NotObject_Mut(f) == ValidationError(f, "Field must be an array")

\* { field, message: 'Field must be an object' }
shapeOf_NotObject(f) == ValidationError(f, "Field must be an object")

\* validate_shapeOf without the opt-in test on the value
validate_shapeOf_NoOptIn(f, v, opts) ==
    IF opts = Undefined THEN Outcome(NoError, <<>>)
    ELSE IF IsNotObject(v) THEN Outcome(shapeOf_NotObject(f), <<>>)
    ELSE LET m == FirstMissing(v, opts.required)
         IN  IF m # 0
             THEN Outcome(ValidationError(f, "Missing required property: "
                                              \o opts.required[m]), <<>>)
             ELSE shapeOf_Entries(f, v, opts, 1, <<>>)

\* validate_shapeOf looking at `required` only after the shape entries
validate_shapeOf_LateRequired(f, v, opts) ==
    IF Falsy(v) \/ opts = Undefined THEN Outcome(NoError, <<>>)
    ELSE IF IsNotObject(v) THEN Outcome(shapeOf_NotObject(f), <<>>)
    ELSE LET m == FirstMissing(v, opts.required)
             e == shapeOf_Entries(f, v, opts, 1, <<>>)
         IN  IF m # 0
             THEN Outcome(ValidationError(f, "Missing required property: "
                                              \o opts.required[m]), e.calls)
             ELSE e

\* validate_shapeOf rejecting properties that the descriptor does not name
validate_shapeOf_Closed(f, v, opts) ==
    IF Falsy(v) \/ opts = Undefined THEN Outcome(NoError, <<>>)
    ELSE IF IsNotObject(v) THEN Outcome(shapeOf_NotObject(f), <<>>)
    ELSE IF \E k \in DOMAIN v.v :
                /\ ~IncludesStr(opts.required, k)
                /\ \A i \in 1..Len(opts.shape) : opts.shape[i].key # k
         THEN Outcome(ValidationError(f, "Unknown property"), <<>>)
    ELSE LET m == FirstMissing(v, opts.required)
         IN  IF m # 0
             THEN Outcome(ValidationError(f, "Missing required property: "
                                              \o opts.required[m]), <<>>)
             ELSE shapeOf_Entries(f, v, opts, 1, <<>>)

validate_shapeOf(f, v, opts) ==
    IF Falsy(v) \/ opts = Undefined THEN Outcome(NoError, <<>>)
    ELSE IF IsNotObject(v) THEN Outcome(shapeOf_NotObject(f), <<>>)
    ELSE LET m == FirstMissing(v, opts.required)
         IN  IF m # 0
             THEN Outcome(ValidationError(f, "Missing required property: "
                                              \o opts.required[m]), <<>>)
             ELSE shapeOf_Entries(f, v, opts, 1, <<>>)

(***************************************************************************)
(* validate_arrayOfShapes                                                  *)
(***************************************************************************)
\* `${field}[${i}]` with items counted from 1
ItemField_Mut(f, i) == f \o "[" \o ToString(i + 1) \o "]"

\* `${field}[${i}]`, i counted from 0 as in the code
ItemField(f, i) == f \o "[" \o ToString(i) \o "]"

\* the address of an item's property with the key put before the index
ItemPropField_KeyFirst(f, i, key) == f \o "." \o key \o "[" \o ToString(i) \o "]"

\* `${field}[${i}].${key}`
ItemPropField(f, i, key) == ItemField(f, i) \o "." \o key

\* expectedType.every(t => ['string','number','boolean','object'].includes(t))
isMultipleTypes(items) ==
    \A j \in 1..Len(items) : items[j] \in {"string", "number", "boolean", "object"}

\* the type validation of one shape entry of one item of validate_arrayOfShapes
arrayOfShapes_TypeCheck(ef, key, expectedType, propValue) ==
    IF expectedType.arr
    THEN IF isMultipleTypes(expectedType.items)
         THEN IF ~IncludesStr(expectedType.items, TypeOf(propValue))
              THEN ValidationError(ef, "Property \"" \o key \o "\" must be of type "
                        \o Join(expectedType.items, " or ") \o ", got " \o TypeOf(propValue))
              ELSE NoError
         ELSE IF ~Includes(expectedType.items, propValue)
              THEN ValidationError(ef, "Property \"" \o key \o "\" must be one of: "
                        \o Join(expectedType.items, ", "))
              ELSE NoError
    ELSE IF expectedType.tag \in {"string", "number", "boolean", "object"}
         THEN IF TypeOf(propValue) # expectedType.tag
              THEN ValidationError(ef, "Property \"" \o key \o "\" must be of type "
                        \o expectedType.tag \o ", got " \o TypeOf(propValue))
              ELSE NoError
         ELSE NoError

\* the custom property-level validation of one shape entry of one item
arrayOfShapes_Predicate(ef, key, i, validators, propValue, cs) ==
    LET validatorFn == Validator(validators, key)
        out == CallPredicate(validatorFn, propValue)
        cs2 == Append(cs, Call(key, i, propValue, out))
    IN  IF validatorFn # "none" /\ key # "_array"
        THEN IF out.kind = "return"
             THEN IF Falsy(out.v)
                  THEN Outcome(ValidationError(ef,
                           "Property \"" \o key \o "\" failed custom validation"), cs2)
                  ELSE Outcome(NoError, cs2)
             ELSE Outcome(ValidationError(ef,
                           "Property \"" \o key \o "\" validation error: "
                           \o CatchMessage(out)), cs2)
        ELSE Outcome(NoError, cs)

\* the loop over Object.entries(shape) for item i, from entry k on
RECURSIVE arrayOfShapes_Entries(_, _, _, _, _, _)
arrayOfShapes_Entries(f, obj, opts, i, k, cs) ==
    IF k > Len(opts.shape) THEN Outcome(NoError, cs)
    ELSE LET key == opts.shape[k].key
             expectedType == opts.shape[k].type
             propValue == Get(obj, key)
             ef == ItemPropField(f, i, key)
             typeErr == arrayOfShapes_TypeCheck(ef, key, expectedType, propValue)
             p == arrayOfShapes_Predicate(ef, key, i, opts.validators, propValue, cs)
         IN  IF IsSkipped(propValue)
             THEN IF IncludesStr(opts.required, key)
                  THEN Outcome(ValidationError(ef, "Missing required property: " \o key), cs)
                  ELSE arrayOfShapes_Entries(f, obj, opts, i, k + 1, cs)
             ELSE IF typeErr # NoError THEN Outcome(typeErr, cs)
             ELSE IF p.result # NoError THEN p
             ELSE arrayOfShapes_Entries(f, obj, opts, i, k + 1, p.calls)

\* the loop over the items, from item i (0-based) on
RECURSIVE arrayOfShapes_Items(_, _, _, _, _)
arrayOfShapes_Items(f, items, opts, i, cs) ==
    IF i >= Len(items) THEN Outcome(NoError, cs)
    ELSE LET item == items[i + 1]
             m == FirstMissing(item, opts.required)
             e == arrayOfShapes_Entries(f, item, opts, i, 1, cs)
         IN  IF IsNotObject(item)
             THEN Outcome(ValidationError(ItemField(f, i), "Array item must be an object"), cs)
             ELSE IF m # 0
             THEN Outcome(ValidationError(ItemPropField(f, i, opts.required[m]),
                             "Missing required property: " \o opts.required[m]), cs)
             ELSE IF e.result # NoError THEN e
             ELSE arrayOfShapes_Items(f, items, opts, i + 1, e.calls)

\* the array-level custom validator reporting at the first item
arrayOfShapes_ArrayPredicate_Mut(f, v, validators) ==
    LET validatorFn == Validator(validators, "_array")
        out == CallPredicate(validatorFn, v)
        cs2 == <<Call("_array", -1, v, out)>>
    IN  IF validatorFn # "none"
        THEN IF out.kind = "return"
             THEN IF Falsy(out.v)
                  THEN Outcome(ValidationError(ItemField(f, 0),
                                               "Array failed custom validation"), cs2)
                  ELSE Outcome(NoError, cs2)
             ELSE Outcome(ValidationError(ItemField(f, 0), "Array validation error: "
                                              \o CatchMessage(out)), cs2)
        ELSE Outcome(NoError, <<>>)

\* the array-level custom validator, validators._array
arrayOfShapes_ArrayPredicate(f, v, validators) ==
    LET validatorFn == Validator(validators, "_array")
        out == CallPredicate(validatorFn, v)
        cs2 == <<Call("_array", -1, v, out)>>
    IN  IF validatorFn # "none"
        THEN IF out.kind = "return"
             THEN IF Falsy(out.v)
                  THEN Outcome(ValidationError(f, "Array failed custom validation"), cs2)
                  ELSE Outcome(NoError, cs2)
             ELSE Outcome(ValidationError(f, "Array validation error: "
                                              \o CatchMessage(out)), cs2)
        ELSE Outcome(NoError, <<>>)

\* validate_arrayOfShapes without the early return for an empty array
validate_arrayOfShapes_NoEmpty(f, v, opts) ==
    IF Falsy(v) \/ opts = Undefined THEN Outcome(NoError, <<>>)
    ELSE IF ~IsArray(v)
         THEN Outcome(ValidationError(f, "Field must be an array"), <<>>)
    ELSE LET a == arrayOfShapes_ArrayPredicate(f, v, opts.validators)
         IN  IF a.result # NoError THEN a
             ELSE arrayOfShapes_Items(f, v.v, opts, 0, a.calls)

validate_arrayOfShapes(f, v, opts) ==
    IF Falsy(v) \/ opts = Undefined THEN Outcome(NoError, <<>>)
    ELSE IF ~IsArray(v)
         THEN Outcome(ValidationError(f, "Field must be an array"), <<>>)
    ELSE IF Len(v.v) = 0 THEN Outcome(NoError, <<>>)
    ELSE LET a == arrayOfShapes_ArrayPredicate(f, v, opts.validators)
         IN  IF a.result # NoError THEN a
             ELSE arrayOfShapes_Items(f, v.v, opts, 0, a.calls)

(***************************************************************************)
(* Inputs.  A call takes a field name, a value and a descriptor.  The      *)
(* property "code" ranges over every kind of value and type, the property  *)
(* "type" over fewer, so that ordering between two properties is covered   *)
(* without the full product.                                               *)
(***************************************************************************)
Fields == {"barcode", "items"}

Absent == [t |-> "absent"]   \* marks a property the object does not have

Numbers == {Num(n) : n \in 0..MaxNum}

\* { code: c, type: t } without the properties marked Absent
ObjFrom(c, t) ==
    LET choice == [k \in {"code", "type"} |-> IF k = "code" THEN c ELSE t]
    IN  Obj([k \in {x \in {"code", "type"} : choice[x] # Absent} |-> choice[k]])

CodeVals == {Absent, Undefined, Null, Str(""), Str("EAN13"), Str("string"), Bool(TRUE),
             Arr(<<>>)}
            \cup Numbers
TypeVals == {Absent, Str(""), Str("EAN13"), Num(1)}

Objects == {ObjFrom(c, t) : c \in CodeVals, t \in TypeVals}

Primitives == {Undefined, Null, Str(""), Str("EAN13"), Bool(FALSE), Bool(TRUE)} \cup Numbers

Items == {Num(1), ObjFrom(Absent, Absent), ObjFrom(Str(""), Absent),
          ObjFrom(Str("EAN13"), Absent), ObjFrom(Num(1), Absent),
          ObjFrom(Str("EAN13"), Str("EAN13"))}

Arrays == {Arr(s) : s \in UNION {[1..n -> Items] : n \in 0..MaxLen}}

Entry(key, type) == [key |-> key, type |-> type]

\* the entries of a shape that declares code as c and type as t (neither when
\* Absent), code first unless typeFirst
ShapeFrom(c, t, typeFirst) ==
    LET ce == IF c = Absent THEN <<>> ELSE <<Entry("code", c)>>
        te == IF t = Absent THEN <<>> ELSE <<Entry("type", t)>>
    IN  IF typeFirst THEN te \o ce ELSE ce \o te

Descriptor(shape, validators, required) ==
    [shape |-> shape, validators |-> validators, required |-> required]

CodeTypes == {Absent, Tag("string"), Tag("number"), Tag("boolean"), Tag("object"),
              List(<<"string", "number">>), List(<<"EAN8", "EAN13">>),
              List(<<"string", "EAN13">>)}
TypeTypes == {Absent, Tag("string"), List(<<"EAN8", "EAN13">>)}
Predicates == {"none", "identity", "never", "throwError", "throwOther"}
Requireds == {<<>>, <<"code">>, <<"code", "type">>, <<"type", "code">>}

ShapeDescriptors ==
    {Descriptor(ShapeFrom(c, t, o), [code |-> pc1, type |-> pc2], r) :
        c \in CodeTypes, t \in TypeTypes, o \in BOOLEAN, pc1 \in Predicates,
        pc2 \in Predicates, r \in Requireds}

ArrayDescriptors ==
    {Descriptor(ShapeFrom(c, t, FALSE), [code |-> pc1, type |-> pc2, _array |-> pa], r) :
        c \in {Tag("string"), List(<<"string", "number">>), List(<<"EAN8", "EAN13">>)},
        t \in {Absent, Tag("string")},
        pc1 \in {"none", "identity", "throwError"},
        pc2 \in {"none", "identity"},
        pa \in Predicates,
        r \in {<<>>, <<"code">>, <<"type", "code">>}}

(***************************************************************************)
(* The state machine of the shape rules: a call is drawn, then one of the  *)
(* two validators is applied to it.  The dispatcher's variables are idle. *)
(***************************************************************************)
Init ==
    /\ pc = "ready"
    /\ op = "none"
    /\ field \in Fields
    /\ \/ /\ value \in Primitives \cup Objects \cup {Arr(<<>>), Arr(<<Num(1)>>)}
          /\ options \in ShapeDescriptors \cup {Undefined}
       \/ /\ value \in Arrays
          /\ options \in ArrayDescriptors
    /\ result = NoError
    /\ calls = <<>>
    /\ input = Obj(<<>>)
    /\ schema = <<>>
    /\ errors = <<>>

Call_shapeOf ==
    /\ pc = "ready"
    /\ LET o == validate_shapeOf(field, value, options)
       IN  result' = o.result /\ calls' = o.calls
    /\ op' = "shapeOf"
    /\ pc' = "done"
    /\ UNCHANGED <<field, value, options, input, schema, errors>>

Call_arrayOfShapes ==
    /\ pc = "ready"
    /\ LET o == validate_arrayOfShapes(field, value, options)
       IN  result' = o.result /\ calls' = o.calls
    /\ op' = "arrayOfShapes"
    /\ pc' = "done"
    /\ UNCHANGED <<field, value, options, input, schema, errors>>

Next == Call_shapeOf \/ Call_arrayOfShapes

Spec == Init /\ [][Next]_vars

TypeOK ==
    /\ pc \in {"ready", "done"}
    /\ result.kind \in {"undefined", "error", "throw"}

(***************************************************************************)
(* The rules of Validator that take the validated record as their last     *)
(* argument (src/Validator.ts).  Through the dispatcher that argument is   *)
(* the validation context: the record plus __fieldConfig.                  *)
(***************************************************************************)
\* hasArrayRule reading the configuration off the record's own keys
hasArrayRule_Mut(_input) ==
    \/ ~Falsy(Get(_input, "array"))
    \/ ~Falsy(Get(_input, "array_items"))

\* fieldConfig?.array || fieldConfig?.array_items, taken as a condition
hasArrayRule(_input) ==
    LET fieldConfig == Get(_input, "__fieldConfig")
    IN  /\ fieldConfig # Undefined
        /\ \/ ~Falsy(Get(fieldConfig, "array"))
           \/ ~Falsy(Get(fieldConfig, "array_items"))

\* validate_required taking 0 and false for values that are present
validate_required_Mut(f, v, opts, _input) ==
    IF Falsy(opts) THEN NoError
    ELSE IF v = Undefined \/ v = Null \/ v = Str("")
         THEN ValidationError(f, "Missing required field")
    ELSE IF hasArrayRule(_input) /\ IsArray(v) /\ Len(v.v) = 0
         THEN ValidationError(f, "Missing required field")
    ELSE NoError

\* validate_required
validate_required(f, v, opts, _input) ==
    IF Falsy(opts) THEN NoError
    ELSE IF Falsy(v) THEN ValidationError(f, "Missing required field")
    ELSE IF hasArrayRule(_input) /\ IsArray(v) /\ Len(v.v) = 0
         THEN ValidationError(f, "Missing required field")
    ELSE NoError

\* the condition with == in place of ===: '1' and 1 are taken for equal
isConditionMet_Mut(opts, input_) ==
    LET dependentFieldValue == Get(input_, Get(opts, "key").v)
        text(x) == IF x.t = "string" THEN x.v ELSE ToString(x.v)
    IN  /\ dependentFieldValue.t \in {"string", "number"}
        /\ text(dependentFieldValue) = text(Get(opts, "value"))

\* input[key] === expectedValue
isConditionMet(opts, input_) ==
    Get(input_, Get(opts, "key").v) = Get(opts, "value")

validate_required_depends_on(f, v, opts, input_) ==
    IF Falsy(opts) THEN NoError
    ELSE IF isConditionMet(opts, input_)
         THEN IF Falsy(v) THEN ValidationError(f, "Missing required field")
              ELSE IF hasArrayRule(input_) /\ IsArray(v) /\ Len(v.v) = 0
                   THEN ValidationError(f, "Missing required field")
              ELSE NoError
    ELSE NoError

validate_array(f, v, opts, _input) ==
    IF Falsy(opts) THEN NoError
    ELSE IF ~Falsy(v) /\ ~IsArray(v) THEN ValidationError(f, "Field must be an array")
    ELSE NoError

\* value.toString() of a truthy value
RECURSIVE toString(_)
toString(v) ==
    CASE v.t = "string" -> v.v
      [] v.t = "number" -> ToString(v.v)
      [] v.t = "boolean" -> (IF v.v THEN "true" ELSE "false")
      [] v.t = "array" ->
            Join([i \in 1..Len(v.v) |->
                     IF v.v[i] = Undefined \/ v.v[i] = Null THEN "" ELSE toString(v.v[i])],
                 ",")
      [] v.t = "object" -> "[object Object]"

\* JSON.stringify(value) for the values an array of the model holds:
\* strings, numbers, booleans and null
JSON_stringify(v) ==
    CASE v.t = "string" -> "\"" \o v.v \o "\""
      [] v.t = "number" -> ToString(v.v)
      [] v.t = "boolean" -> (IF v.v THEN "true" ELSE "false")
      [] v.t = "null" -> "null"

\* itemsMatch with == in place of ===: '1' and 1 are taken for equal
itemsMatch_Mut(item, allowedItem) ==
    IF TypeOf(item) \in {"string", "number", "boolean"}
    THEN /\ TypeOf(allowedItem) \in {"string", "number", "boolean"}
         /\ toString(item) = toString(allowedItem)
    ELSE JSON_stringify(item) = JSON_stringify(allowedItem)

\* the helper itemsMatch of validate_array_items
itemsMatch(item, allowedItem) ==
    IF TypeOf(item) \in {"string", "number", "boolean"}
    THEN item = allowedItem
    ELSE JSON_stringify(item) = JSON_stringify(allowedItem)

\* the items of arrayValue no allowed item matches, in order
invalidItems(arrayValue, allowedItems) ==
    SelectSeq(arrayValue,
              LAMBDA item : ~\E i \in 1..Len(allowedItems) : itemsMatch(item, allowedItems[i]))

validate_array_items(f, v, allowedItems, _input) ==
    IF Falsy(v) \/ Falsy(allowedItems) THEN NoError
    ELSE IF ~IsArray(v)
         THEN ValidationError(f, "Field must be an array to validate items")
    ELSE IF Len(v.v) = 0 THEN NoError
    ELSE LET invalid == invalidItems(v.v, allowedItems.v)
         IN  IF Len(invalid) > 0
             THEN ValidationError(f, "Array contains invalid items: "
                      \o Join([i \in 1..Len(invalid) |-> JSON_stringify(invalid[i])], ", "))
             ELSE NoError

(***************************************************************************)
(* validate_at_least_one_of.  Its body is not part of src/Validator.ts;    *)
(* it is modelled from its tests (src/__tests__/Validator.test.ts 787-1145)*)
(* and its documentation (src/QUICK_REFERENCE.md 222-263).                 *)
(***************************************************************************)
\* a value other than '', null, undefined and []
hasValue(v) ==
    ~(v = Undefined \/ v = Null \/ v = Str("") \/ (IsArray(v) /\ Len(v.v) = 0))

\* the rule with the falsy test of validate_required in place of hasValue
validate_at_least_one_of_Falsy(f, v, opts, input_) ==
    IF opts = Undefined THEN NoError
    ELSE IF Get(opts, "required_depends_on") # Undefined
            /\ ~isConditionMet(Get(opts, "required_depends_on"), input_)
         THEN NoError
    ELSE IF \E i \in 1..Len(Get(opts, "fields").v) :
                ~Falsy(Get(input_, Get(opts, "fields").v[i].v))
         THEN NoError
    ELSE ValidationError(f, "At least one must be selected")

validate_at_least_one_of(f, v, opts, input_) ==
    IF opts = Undefined THEN NoError
    ELSE IF Get(opts, "required_depends_on") # Undefined
            /\ ~isConditionMet(Get(opts, "required_depends_on"), input_)
         THEN NoError
    ELSE IF \E i \in 1..Len(Get(opts, "fields").v) :
                hasValue(Get(input_, Get(opts, "fields").v[i].v))
         THEN NoError
    ELSE ValidationError(f, "At least one must be selected")

(***************************************************************************)
(* The dispatcher validate(input, fieldDescription) of src/index.ts.  A    *)
(* schema is the sequence of its fields in Object.keys order, a field the  *)
(* sequence of its rules in Object.keys order.                             *)
(***************************************************************************)
Rule(name, opts) == [name |-> name, options |-> opts]
Field(attr, rules) == [attr |-> attr, rules |-> rules]

\* fieldDescription[attr] as an object
FieldConfig(rules) ==
    Obj([n \in {rules[i].name : i \in 1..Len(rules)} |->
            rules[CHOOSE i \in 1..Len(rules) : rules[i].name = n].options])

\* the context built by Object.assign(input, { __fieldConfig }), which
\* writes the key into input itself
validationContext_Mut(input_, fieldConfig) ==
    LET c == Obj([k \in DOMAIN input_.v \cup {"__fieldConfig"} |->
                     IF k = "__fieldConfig" THEN fieldConfig ELSE input_.v[k]])
    IN  [context |-> c, input |-> c]

\* { ...input, __fieldConfig: fieldDescription[attr] }: the new object, and
\* input as the expression leaves it
validationContext(input_, fieldConfig) ==
    LET c == Obj([k \in DOMAIN input_.v \cup {"__fieldConfig"} |->
                     IF k = "__fieldConfig" THEN fieldConfig ELSE input_.v[k]])
    IN  [context |-> c, input |-> input_]

\* typeof validator[`validate_${ruleName}`] === 'function'
IsValidatorFunction(ruleName) ==
    ruleName \in {"required", "required_depends_on", "minLength", "maxLength", "regexp",
                  "equal", "oneof", "array", "array_items", "shapeOf", "arrayOfShapes",
                  "at_least_one_of"}

\* validator[fn](attr, input[attr], fieldDescription[attr][ruleName], validationContext)
\* for the rules the model's schemas carry
ApplyRule(ruleName, attr, v, opts, context) ==
    CASE ruleName = "required" -> Outcome(validate_required(attr, v, opts, context), <<>>)
      [] ruleName = "required_depends_on" ->
            Outcome(validate_required_depends_on(attr, v, opts, context), <<>>)
      [] ruleName = "array" -> Outcome(validate_array(attr, v, opts, context), <<>>)
      [] ruleName = "array_items" ->
            Outcome(validate_array_items(attr, v, opts, context), <<>>)
      [] ruleName = "at_least_one_of" ->
            Outcome(validate_at_least_one_of(attr, v, opts, context), <<>>)
      [] ruleName = "shapeOf" -> validate_shapeOf(attr, v, opts)
      [] ruleName = "arrayOfShapes" -> validate_arrayOfShapes(attr, v, opts)

\* what one pass of a map leaves: the mapped results, the input record, the
\* predicate invocations made, and the fault that ended it (NoError if none)
Mapped(results, input_, cs, thrown) ==
    [results |-> results, input |-> input_, calls |-> cs, thrown |-> thrown]

\* a mapped element put in front of what the rest of a map leaves
Cons(r, rest) == Mapped(<<r>> \o rest.results, rest.input, rest.calls, rest.thrown)

RECURSIVE validate_Rules(_, _, _, _, _)

\* the callback's return for rule i, whose call gave o, then the rules after it
validate_Return(attr, rules, i, cs, c, o) ==
    IF o.result.kind = "throw" THEN Mapped(<<>>, c.input, cs \o o.calls, o.result)
    ELSE Cons(o.result, validate_Rules(attr, rules, i + 1, c.input, cs \o o.calls))

\* the call of rule i with the validation context c
validate_Call(attr, rules, i, cs, c) ==
    validate_Return(attr, rules, i, cs, c,
                    ApplyRule(rules[i].name, attr, Get(c.input, attr), rules[i].options,
                              c.context))

\* the rule map reporting a rule key that names no method of the validator
validate_Rules_Unknown(attr, rules, i, input_, cs) ==
    IF i > Len(rules) THEN Mapped(<<>>, input_, cs, NoError)
    ELSE IF ~IsValidatorFunction(rules[i].name)
         THEN Cons(ValidationError(attr, "Unknown rule"),
                   validate_Rules(attr, rules, i + 1, input_, cs))
    ELSE validate_Call(attr, rules, i, cs, validationContext(input_, FieldConfig(rules)))

\* Object.keys(fieldDescription[attr]).map((ruleName) => ...) from rule i on
validate_Rules(attr, rules, i, input_, cs) ==
    IF i > Len(rules) THEN Mapped(<<>>, input_, cs, NoError)
    ELSE IF ~IsValidatorFunction(rules[i].name)
         THEN Cons(NoError, validate_Rules(attr, rules, i + 1, input_, cs))
    ELSE validate_Call(attr, rules, i, cs, validationContext(input_, FieldConfig(rules)))

\* the filter keeping only the first error of a field
FilterItems_First(list) ==
    LET kept == SelectSeq(list, LAMBDA item : item # NoError)
    IN  IF Len(kept) = 0 THEN kept ELSE <<kept[1]>>

\* list.filter((item) => item)
FilterItems(list) == SelectSeq(list, LAMBDA item : item # NoError)

RECURSIVE validate_Fields(_, _, _, _)

\* the filtered list of field j, whose rules left m, then the fields after it
validate_Field(fieldDescription, j, m) ==
    IF m.thrown # NoError THEN Mapped(<<>>, m.input, m.calls, m.thrown)
    ELSE Cons(FilterItems(m.results),
              validate_Fields(fieldDescription, j + 1, m.input, m.calls))

\* keys.map((attr) => ...) from field j on: one filtered list per field
validate_Fields(fieldDescription, j, input_, cs) ==
    IF j > Len(fieldDescription) THEN Mapped(<<>>, input_, cs, NoError)
    ELSE validate_Field(fieldDescription, j,
                        validate_Rules(fieldDescription[j].attr,
                                       fieldDescription[j].rules, 1, input_, cs))

\* lists.filter((item) => item.length)
FilterLists(lists) == SelectSeq(lists, LAMBDA item : Len(item) # 0)

\* lists.flat()
RECURSIVE Flat(_)
Flat(lists) == IF Len(lists) = 0 THEN <<>> ELSE Head(lists) \o Flat(Tail(lists))

\* errors.flat() returned, or the fault that ended the maps, with the input
\* record as the call leaves it
Returned(m) ==
    [errors |-> IF m.thrown # NoError THEN <<>> ELSE Flat(FilterLists(m.results)),
     input |-> m.input, calls |-> m.calls, thrown |-> m.thrown]

\* validate(input, fieldDescription)
validate(input_, fieldDescription) ==
    Returned(validate_Fields(fieldDescription, 1, input_, <<>>))

(***************************************************************************)
(* Inputs of the dispatcher.  Alone, the field "tags" carries every         *)
(* combination of the rules in both orders; next to the field "email" it   *)
(* carries a few, so that order across fields and rules is covered         *)
(* without the full product.                                               *)
(***************************************************************************)
\* { tags: t, email: e, enable: n } without the keys marked Absent
Record(t, e, n) ==
    LET choice == [k \in {"tags", "email", "enable"} |->
                      IF k = "tags" THEN t ELSE IF k = "email" THEN e ELSE n]
    IN  Obj([k \in {x \in {"tags", "email", "enable"} : choice[x] # Absent} |-> choice[k]])

StringArrays == {Arr(s) : s \in UNION {[1..n -> {Str("a"), Str("b")}] : n \in 0..MaxLen}}
TagsVals == {Absent, Undefined, Null, Str(""), Str("a"), Bool(FALSE)}
            \cup Numbers \cup StringArrays
EmailVals == {Absent, Str(""), Str("x")}
EnableVals == {Absent, Str("1"), Str("0")}

Records == {Record(t, e, n) : t \in TagsVals, e \in EmailVals, n \in EnableVals}

\* { key: 'enable', value: '1' }
DependsOnEnable == Obj([key |-> Str("enable"), value |-> Str("1")])

\* { fields: ['tags', 'email', 'phone'] }
OneOfGroup == Obj([fields |-> Arr(<<Str("tags"), Str("email"), Str("phone")>>)])

\* the same with required_depends_on: { key: 'enable', value: '1' }
OneOfGroupIfEnabled ==
    Obj([fields |-> Arr(<<Str("tags"), Str("email"), Str("phone")>>),
         required_depends_on |-> DependsOnEnable])

\* the rule `name` unless its options are marked Absent
RuleIf(name, opts) == IF opts = Absent THEN <<>> ELSE <<Rule(name, opts)>>

RECURSIVE Reverse(_)
Reverse(s) == IF Len(s) = 0 THEN <<>> ELSE Append(Reverse(Tail(s)), Head(s))

TagsRules ==
    {IF rev THEN Reverse(r) ELSE r :
        rev \in BOOLEAN,
        r \in {RuleIf("required", req) \o RuleIf("required_depends_on", dep)
               \o RuleIf("array", arr) \o RuleIf("array_items", items)
               \o RuleIf("at_least_one_of", one) :
                  req \in {Absent, Bool(TRUE), Bool(FALSE)},
                  dep \in {Absent, DependsOnEnable},
                  arr \in {Absent, Bool(TRUE), Bool(FALSE)},
                  items \in {Absent, Arr(<<Str("a")>>)},
                  one \in {Absent, OneOfGroup, OneOfGroupIfEnabled}}}

EmailRules ==
    {<<>>, <<Rule("required", Bool(TRUE))>>, <<Rule("at_least_one_of", OneOfGroup)>>,
     <<Rule("at_least_one_of", OneOfGroup), Rule("label", Str("Email")),
       Rule("required", Bool(TRUE))>>}

\* the rules tags carries next to a second field
TagsRulesWithEmail ==
    {<<>>,
     <<Rule("required", Bool(TRUE))>>,
     <<Rule("array", Bool(TRUE)), Rule("required", Bool(TRUE))>>,
     <<Rule("required", Bool(TRUE)), Rule("array_items", Arr(<<Str("a")>>)),
       Rule("at_least_one_of", OneOfGroup)>>,
     <<Rule("at_least_one_of", OneOfGroupIfEnabled),
       Rule("required_depends_on", DependsOnEnable)>>}

\* schemas over tags and email
FlatSchemas ==
    {<<Field("tags", t)>> : t \in TagsRules}
    \cup {<<Field("tags", t), Field("email", e)>> :
              t \in TagsRulesWithEmail, e \in EmailRules}
    \cup {<<Field("email", e), Field("tags", t)>> :
              t \in TagsRulesWithEmail, e \in EmailRules}

\* schemas whose field barcode carries a shapeOf or an arrayOfShapes rule
ShapeSchemas ==
    {<<Field("barcode", RuleIf("required", req) \o <<Rule("shapeOf", d)>>)>> :
        req \in {Absent, Bool(TRUE)},
        d \in {Descriptor(<<Entry("code", Tag("string"))>>, [code |-> p], r) :
                  p \in {"none", "never"}, r \in {<<>>, <<"code">>}}}
    \cup
    {<<Field("barcode", RuleIf("required", req) \o <<Rule("arrayOfShapes", d)>>)>> :
        req \in {Absent, Bool(TRUE)},
        d \in {Descriptor(<<Entry("code", Tag("string"))>>, [code |-> p, _array |-> "none"], r) :
                  p \in {"none", "never"}, r \in {<<>>, <<"code">>}}}

ShapeRecords ==
    {Obj(<<>>)} \cup
    {Obj([barcode |-> v]) :
        v \in {Undefined, Null, Str(""), Num(1), Arr(<<>>), ObjFrom(Absent, Absent),
               ObjFrom(Str("EAN13"), Absent), Arr(<<ObjFrom(Str("EAN13"), Absent)>>),
               Arr(<<ObjFrom(Num(1), Absent)>>), Arr(<<Num(1)>>),
               Arr(<<ObjFrom(Str("EAN13"), Absent), Num(1)>>),
               Arr(<<ObjFrom(Str("EAN13"), Absent), ObjFrom(Num(1), Absent)>>)}}

(***************************************************************************)
(* The state machine of the dispatcher: a record and a schema are drawn,   *)
(* then validate is applied to them.  result holds the fault that escaped  *)
(* the call, NoError when validate returned.                               *)
(***************************************************************************)
InitValidate ==
    /\ pc = "ready"
    /\ op = "none"
    /\ field = ""
    /\ value = Undefined
    /\ options = Undefined
    /\ result = NoError
    /\ calls = <<>>
    /\ \/ /\ input \in Records
          /\ schema \in FlatSchemas
       \/ /\ input \in ShapeRecords
          /\ schema \in ShapeSchemas
    /\ errors = <<>>

Validate ==
    /\ pc = "ready"
    /\ LET r == validate(input, schema)
       IN  /\ errors' = r.errors
           /\ input' = r.input
           /\ calls' = r.calls
           /\ result' = r.thrown
    /\ op' = "validate"
    /\ pc' = "done"
    /\ UNCHANGED <<field, value, options, schema>>

NextValidate == Validate

SpecValidate == InitValidate /\ [][NextValidate]_vars

(***************************************************************************)
(* The length rules of Validator (src/Validator.ts).                       *)
(***************************************************************************)
\* validate_minLength with <= in place of <
validate_minLength_Mut(f, v, opts, _input) ==
    IF ~Falsy(v) /\ ~Falsy(opts) /\ Len(toString(v)) <= opts.v
    THEN ValidationError(f, "Field value is too short")
    ELSE NoError

\* validate_minLength
validate_minLength(f, v, opts, _input) ==
    IF ~Falsy(v) /\ ~Falsy(opts) /\ Len(toString(v)) < opts.v
    THEN ValidationError(f, "Field value is too short")
    ELSE NoError

\* validate_maxLength
validate_maxLength(f, v, opts, _input) ==
    IF ~Falsy(v) /\ ~Falsy(opts) /\ Len(toString(v)) > opts.v
    THEN ValidationError(f, "Field value is too long")
    ELSE NoError

(***************************************************************************)
(* Inputs of the rules called on their own: a field name, a value, the     *)
(* rule's options and the record, which may carry __fieldConfig.           *)
(***************************************************************************)
MaxStr == 3   \* longest string whose length is measured

\* the string of n letters
RECURSIVE Letters(_)
Letters(n) == IF n = 0 THEN "" ELSE "a" \o Letters(n - 1)

Strings == {Str(Letters(n)) : n \in 0..MaxStr}

\* { enable: n, __fieldConfig: c } without the keys marked Absent
RuleRecord(n, c) ==
    LET choice == [k \in {"enable", "__fieldConfig"} |-> IF k = "enable" THEN n ELSE c]
    IN  Obj([k \in {x \in {"enable", "__fieldConfig"} : choice[x] # Absent} |-> choice[k]])

FieldConfigs == {Absent, Obj([array |-> Bool(TRUE)]), Obj([array |-> Bool(FALSE)]),
                 Obj([array_items |-> Arr(<<Str("a")>>)]),
                 Obj([required |-> Bool(TRUE)])}

RuleRecords == {RuleRecord(n, c) : n \in {Absent, Str("1"), Str("0"), Num(1)},
                                   c \in FieldConfigs}

\* arrays of strings, numbers, booleans and null
MixedArrays ==
    {Arr(s) : s \in UNION {[1..n -> {Str("a"), Str("b"), Str("1"), Num(1), Bool(TRUE), Null}] :
                              n \in 0..MaxLen}}

RuleValues == Primitives \cup Strings \cup MixedArrays \cup {ObjFrom(Absent, Absent)}

RequiredOptions == {Undefined, Bool(TRUE), Bool(FALSE)}
DependsOnOptions == {Undefined, DependsOnEnable,
                     Obj([key |-> Str("enable"), value |-> Num(1)])}
LengthOptions == {Undefined} \cup {Num(n) : n \in 0..(MaxStr + 1)}
AllowedItems == {Undefined, Arr(<<>>), Arr(<<Str("a")>>), Arr(<<Str("a"), Num(1)>>),
                 Arr(<<Bool(TRUE), Null, Str("b")>>)}

(***************************************************************************)
(* The state machine of the rules called on their own: a call is drawn,    *)
(* then a rule that takes options of the drawn kind is applied to it.      *)
(***************************************************************************)
InitRule ==
    /\ pc = "ready"
    /\ op = "none"
    /\ field \in Fields
    /\ \/ /\ value \in RuleValues
          /\ options \in RequiredOptions \cup DependsOnOptions
          /\ input \in RuleRecords
       \/ /\ value \in RuleValues
          /\ options \in LengthOptions \cup AllowedItems
          /\ input = Obj(<<>>)
    /\ result = NoError
    /\ calls = <<>>
    /\ schema = <<>>
    /\ errors = <<>>

Call_required ==
    /\ pc = "ready"
    /\ options \in RequiredOptions
    /\ result' = validate_required(field, value, options, input)
    /\ op' = "required"
    /\ pc' = "done"
    /\ UNCHANGED <<field, value, options, calls, input, schema, errors>>

Call_required_depends_on ==
    /\ pc = "ready"
    /\ options \in DependsOnOptions
    /\ result' = validate_required_depends_on(field, value, options, input)
    /\ op' = "required_depends_on"
    /\ pc' = "done"
    /\ UNCHANGED <<field, value, options, calls, input, schema, errors>>

Call_minLength ==
    /\ pc = "ready"
    /\ options \in LengthOptions
    /\ result' = validate_minLength(field, value, options, input)
    /\ op' = "minLength"
    /\ pc' = "done"
    /\ UNCHANGED <<field, value, options, calls, input, schema, errors>>

Call_maxLength ==
    /\ pc = "ready"
    /\ options \in LengthOptions
    /\ result' = validate_maxLength(field, value, options, input)
    /\ op' = "maxLength"
    /\ pc' = "done"
    /\ UNCHANGED <<field, value, options, calls, input, schema, errors>>

Call_array_items ==
    /\ pc = "ready"
    /\ options \in AllowedItems
    /\ result' = validate_array_items(field, value, options, input)
    /\ op' = "array_items"
    /\ pc' = "done"
    /\ UNCHANGED <<field, value, options, calls, input, schema, errors>>

NextRule ==
    \/ Call_required
    \/ Call_required_depends_on
    \/ Call_minLength
    \/ Call_maxLength
    \/ Call_array_items

SpecRule == InitRule /\ [][NextRule]_vars

(***************************************************************************)
(* Vocabulary of the properties, stated apart from the code above.         *)
(***************************************************************************)
FalsyValues == {Undefined, Null, Str(""), Num(0), Bool(FALSE)}

\* absent, undefined, null or the empty string
PropertyMissing(obj, key) ==
    key \notin DOMAIN obj.v \/ obj.v[key] \in {Undefined, Null, Str("")}

StartsWith(s, prefix) ==
    Len(s) >= Len(prefix) /\ SubSeq(s, 1, Len(prefix)) = prefix

Contains(s, m) ==
    \E i \in 1..(Len(s) - Len(m) + 1) : SubSeq(s, i, i + Len(m) - 1) = m

Done(o) == pc = "done" /\ op = o

ObjectCall(o) == Done(o) /\ value.t = "object" /\ options # Undefined

\* the array-level predicate is absent or returns a truthy value
ArrayLevelPasses ==
    LET p == Validator(options.validators, "_array")
    IN  \/ p = "none"
        \/ /\ CallPredicate(p, value).kind = "return"
           /\ CallPredicate(p, value).v \notin FalsyValues

\* the first n items of the array have no violation
ItemsPass(n) ==
    arrayOfShapes_Items(field, SubSeq(value.v, 1, n), options, 0, <<>>).result = NoError

\* a call of validate_arrayOfShapes that reaches item n (0-based), an object
ItemCall(n) ==
    /\ Done("arrayOfShapes") /\ value.t = "array" /\ options # Undefined
    /\ n < Len(value.v)
    /\ ArrayLevelPasses
    /\ ItemsPass(n)
    /\ value.v[n + 1].t = "object"

\* the index in `required` of the first name missing from obj
FirstMissingIn(obj, required) ==
    CHOOSE i \in 1..Len(required) :
        /\ PropertyMissing(obj, required[i])
        /\ \A j \in 1..(i - 1) : ~PropertyMissing(obj, required[j])

SomeMissing(obj, required) ==
    \E i \in 1..Len(required) : PropertyMissing(obj, required[i])

(***************************************************************************)
(* C1.  Opt-in rule: for every falsy value (null, undefined, '', 0, false) *)
(* and every descriptor, both validators return no error; they also return *)
(* no error for any value when the descriptor is absent.                   *)
(***************************************************************************)
C1_OptIn ==
    pc = "done" /\ (value \in FalsyValues \/ options = Undefined) => result = NoError

C1_Witness ==
    /\ Done("shapeOf") /\ value = Num(0) /\ options # Undefined
    /\ options.required = <<"code">>
    /\ result = NoError

(***************************************************************************)
(* C2 as stated: for every string, number and boolean value and any        *)
(* descriptor, validate_shapeOf returns the 'Field must be an object'      *)
(* error whose field is the call's field name.                             *)
(***************************************************************************)
C2_Original ==
    Done("shapeOf") /\ value.t \in {"string", "number", "boolean"}
        => result = ValidationError(field, "Field must be an object")

(***************************************************************************)
(* C2 amended: for every truthy string, number and boolean value and any   *)
(* descriptor that is present, validate_shapeOf returns the 'Field must be *)
(* an object' error whose field is the call's field name.                  *)
(***************************************************************************)
C2_NotAnObject ==
    (/\ Done("shapeOf") /\ value.t \in {"string", "number", "boolean"}
     /\ value \notin FalsyValues /\ options # Undefined)
        => result = ValidationError(field, "Field must be an object")

C2_Witness ==
    /\ Done("shapeOf") /\ value = Bool(TRUE) /\ options # Undefined
    /\ field = "items"
    /\ result = ValidationError("items", "Field must be an object")

(***************************************************************************)
(* C3.  validate_shapeOf fails fast on required: for an object value in    *)
(* which a property listed in required is missing, the call returns        *)
(* 'Missing required property: <name>' for the first missing name in       *)
(* required order, whatever other violations the value has.                *)
(***************************************************************************)
C3_RequiredFailFast ==
    ObjectCall("shapeOf") /\ SomeMissing(value, options.required)
        => result = ValidationError(field, "Missing required property: "
                        \o options.required[FirstMissingIn(value, options.required)])

\* type is required and missing while code, declared first, has the wrong type
C3_Witness ==
    /\ ObjectCall("shapeOf")
    /\ options.required = <<"type", "code">>
    /\ options.shape = <<Entry("code", Tag("string")), Entry("type", Tag("string"))>>
    /\ value = ObjFrom(Num(1), Absent)
    /\ result = ValidationError(field, "Missing required property: type")

(***************************************************************************)
(* C4.  In both validators a property named in required is reported as     *)
(* missing when it is absent, undefined, null or the empty string,         *)
(* whatever type shape declares for it.                                    *)
(***************************************************************************)
\* required[i] is the first name of `required` that obj is missing
IsFirstMissing(obj, required, i) ==
    /\ PropertyMissing(obj, required[i])
    /\ \A j \in 1..(i - 1) : ~PropertyMissing(obj, required[j])

C4_RequiredMissing ==
    /\ ObjectCall("shapeOf") =>
         \A i \in 1..Len(options.required) :
            IsFirstMissing(value, options.required, i)
            => result = ValidationError(field,
                            "Missing required property: " \o options.required[i])
    /\ \A n \in 0..MaxLen :
         ItemCall(n) =>
            \A i \in 1..Len(options.required) :
                IsFirstMissing(value.v[n + 1], options.required, i)
                => result = ValidationError(ItemPropField(field, n, options.required[i]),
                                "Missing required property: " \o options.required[i])

\* the second item has code: '' where code is required and declared 'string'
C4_Witness ==
    /\ ItemCall(1)
    /\ Get(value.v[2], "code") = Str("")
    /\ options.required = <<"code">>
    /\ options.shape = <<Entry("code", Tag("string"))>>
    /\ field = "items"
    /\ result = ValidationError("items[1].code", "Missing required property: code")

\* the call's descriptor with only the first n entries of its shape
ShapePrefix(n) == [options EXCEPT !.shape = SubSeq(@, 1, n)]

\* validate_shapeOf finds nothing in `required` nor in the shape entries before i
ShapeOfReaches(i) == validate_shapeOf(field, value, ShapePrefix(i - 1)).result = NoError

\* item n of the array has nothing missing in `required` and passes the shape
\* entries before i
ItemReaches(n, i) ==
    arrayOfShapes_Items(field, <<value.v[n + 1]>>, ShapePrefix(i - 1), 0, <<>>).result = NoError

\* the result is an error about property key
ErrorAbout(f, key) ==
    /\ result.kind = "error"
    /\ \/ StartsWith(result.message, "Property \"" \o key \o "\"")
       \/ result.message = "Missing required property: " \o key
       \/ result.field = f \o "." \o key

\* the result is a type, alternatives or enum error about property key, at f
TypeErrorAt(f, key) ==
    /\ result.kind = "error"
    /\ result.field = f
    /\ StartsWith(result.message, "Property \"" \o key \o "\" must be")

(***************************************************************************)
(* C5.  In both validators a per-property predicate is invoked only for    *)
(* present properties: no predicate is ever called with undefined, null or *)
(* the empty string.                                                       *)
(***************************************************************************)
C5_PredicateOnlyOnPresent ==
    pc = "done" =>
        \A i \in 1..Len(calls) :
            calls[i].key # "_array" => calls[i].arg \notin {Undefined, Null, Str("")}

(***************************************************************************)
(* C6.  validate_shapeOf skips optional missing properties: a property in  *)
(* shape but not in required that is absent, undefined, null or the empty  *)
(* string produces no error, whatever type is declared for it.             *)
(***************************************************************************)
C6_OptionalMissingSkipped ==
    ObjectCall("shapeOf") =>
        \A i \in 1..Len(options.shape) :
            LET key == options.shape[i].key
            IN  (~IncludesStr(options.required, key) /\ PropertyMissing(value, key))
                    => ~ErrorAbout(field, key)

(***************************************************************************)
(* C7.  In both validators a shape entry that is a sequence of primitive   *)
(* tags is checked as type alternatives (a present property passes iff the *)
(* typeof of its value is in the sequence) and any other sequence as an    *)
(* enum (passes iff the value is an element of the sequence).              *)
(***************************************************************************)
PrimitiveTags == {"string", "number", "boolean", "object"}

\* the check the sequence `items` stands for, applied to the value pv
SequencePasses(items, pv) ==
    IF \A j \in 1..Len(items) : items[j] \in PrimitiveTags
    THEN \E j \in 1..Len(items) : items[j] = TypeOf(pv)
    ELSE pv.t = "string" /\ \E j \in 1..Len(items) : items[j] = pv.v

C7_EnumVsAlternatives ==
    /\ ObjectCall("shapeOf") =>
         \A i \in 1..Len(options.shape) :
            LET e == options.shape[i]
            IN  (ShapeOfReaches(i) /\ e.type.arr /\ ~PropertyMissing(value, e.key))
                    => (SequencePasses(e.type.items, Get(value, e.key))
                            <=> ~TypeErrorAt(field, e.key))
    /\ \A n \in 0..MaxLen :
         ItemCall(n) =>
            \A i \in 1..Len(options.shape) :
                LET e == options.shape[i]
                    item == value.v[n + 1]
                IN  (ItemReaches(n, i) /\ e.type.arr /\ ~PropertyMissing(item, e.key))
                        => (SequencePasses(e.type.items, Get(item, e.key))
                                <=> ~TypeErrorAt(ItemPropField(field, n, e.key), e.key))

(***************************************************************************)
(* C8.  validate_shapeOf primitive type check: when no required property   *)
(* is missing and every earlier shape entry passes, a present property k   *)
(* declared with primitive tag T yields the error 'Property "k" must be of *)
(* type T, got A' at the call's field name exactly when the typeof A of    *)
(* its value differs from T; a value whose typeof equals T passes the type *)
(* check.                                                                  *)
(***************************************************************************)
C8_PrimitiveTypeCheck ==
    ObjectCall("shapeOf") =>
        \A i \in 1..Len(options.shape) :
            LET e == options.shape[i]
                pv == Get(value, e.key)
            IN  (ShapeOfReaches(i) /\ ~e.type.arr /\ ~PropertyMissing(value, e.key))
                    => /\ TypeOf(pv) # e.type.tag
                            <=> result = ValidationError(field,
                                    "Property \"" \o e.key \o "\" must be of type "
                                    \o e.type.tag \o ", got " \o TypeOf(pv))
                       /\ TypeOf(pv) = e.type.tag => ~TypeErrorAt(field, e.key)

\* type passes first; code, declared 'number', holds a string
C8_Witness ==
    /\ ObjectCall("shapeOf")
    /\ options.shape = <<Entry("type", Tag("string")), Entry("code", Tag("number"))>>
    /\ value = ObjFrom(Str("EAN13"), Str("EAN13"))
    /\ options.validators["type"] = "identity"
    /\ result = ValidationError(field, "Property \"code\" must be of type number, got string")

(***************************************************************************)
(* C9.  validate_shapeOf predicate failure: when a present property p      *)
(* passes its type/enum check and the predicate registered for p returns a *)
(* falsy result, the call returns the error with field '<field>.<p>' and   *)
(* message 'Property "p" failed custom validation'; a truthy result yields *)
(* no error for p.                                                         *)
(***************************************************************************)
C9_PredicateFailure ==
    ObjectCall("shapeOf") =>
        \A i \in 1..Len(options.shape) :
            LET e == options.shape[i]
                pv == Get(value, e.key)
                p == Validator(options.validators, e.key)
                out == CallPredicate(p, pv)
            IN  (/\ ShapeOfReaches(i) /\ ~PropertyMissing(value, e.key)
                 /\ shapeOf_TypeCheck(field, e.key, e.type, pv) = NoError
                 /\ p # "none" /\ out.kind = "return")
                    => IF out.v \in FalsyValues
                       THEN result = ValidationError(field \o "." \o e.key,
                                "Property \"" \o e.key \o "\" failed custom validation")
                       ELSE ~ErrorAbout(field, e.key)

\* code holds 0, is declared 'number', and its predicate returns the 0
C9_Witness ==
    /\ ObjectCall("shapeOf")
    /\ field = "barcode"
    /\ Get(value, "code") = Num(0)
    /\ options.shape = <<Entry("code", Tag("number"))>>
    /\ options.validators["code"] = "identity"
    /\ calls = <<Call("code", -1, Num(0), [kind |-> "return", v |-> Num(0)])>>
    /\ result = ValidationError("barcode.code", "Property \"code\" failed custom validation")

(***************************************************************************)
(* C10.  Predicate fault containment: no call of either validator          *)
(* propagates a fault thrown by a predicate; a predicate on property p of  *)
(* field f that throws Error(m) makes the call return an error at 'f.p'    *)
(* (or 'f[i].p', or 'f' for the array-level predicate) whose message       *)
(* contains m, and a thrown non-Error value yields 'Unknown error'.        *)
(***************************************************************************)
C10_FaultContainment ==
    pc = "done" =>
        /\ result.kind # "throw"
        /\ \A i \in 1..Len(calls) :
            LET c == calls[i]
                where == IF c.key = "_array" /\ c.index = -1 /\ op = "arrayOfShapes"
                         THEN field
                         ELSE IF op = "shapeOf" THEN field \o "." \o c.key
                         ELSE ItemPropField(field, c.index, c.key)
            IN  c.out.kind = "throw"
                    => /\ result.kind = "error"
                       /\ result.field = where
                       /\ Contains(result.message,
                            IF c.out.isError THEN c.out.message ELSE "Unknown error")

\* the predicate of code throws Error('boom') on the second item
C10_Witness ==
    /\ ItemCall(1)
    /\ field = "items"
    /\ options.validators["code"] = "throwError"
    /\ Len(calls) > 0
    /\ calls[Len(calls)].out = [kind |-> "throw", isError |-> TRUE, message |-> "boom"]
    /\ result = ValidationError("items[1].code", "Property \"code\" validation error: boom")

(***************************************************************************)
(* C11.  Conformance round-trip: for every descriptor and every object     *)
(* value in which each required property is present, each present shape    *)
(* property matches its declared primitive tag, type alternatives or enum, *)
(* and every registered predicate returns true, validate_shapeOf returns   *)
(* no error (and validate_arrayOfShapes returns no error for any array of  *)
(* such values).                                                           *)
(***************************************************************************)
\* the predicate p, if any, returns true (a truthy value) on arg
ReturnsTrue(p, arg) ==
    \/ p = "none"
    \/ /\ CallPredicate(p, arg).kind = "return"
       /\ CallPredicate(p, arg).v \notin FalsyValues

\* the value pv matches the declared type
TypeConforms(type, pv) ==
    IF type.arr THEN SequencePasses(type.items, pv) ELSE TypeOf(pv) = type.tag

\* obj conforms to the descriptor opts
Conforms(obj, opts) ==
    /\ obj.t = "object"
    /\ ~SomeMissing(obj, opts.required)
    /\ \A i \in 1..Len(opts.shape) :
        LET e == opts.shape[i]
        IN  \/ PropertyMissing(obj, e.key)
            \/ /\ TypeConforms(e.type, Get(obj, e.key))
               /\ ReturnsTrue(Validator(opts.validators, e.key), Get(obj, e.key))

C11_RoundTrip ==
    /\ (ObjectCall("shapeOf") /\ Conforms(value, options)) => result = NoError
    /\ (/\ Done("arrayOfShapes") /\ value.t = "array" /\ options # Undefined
        /\ \A n \in 1..Len(value.v) : Conforms(value.v[n], options)
        /\ ReturnsTrue(Validator(options.validators, "_array"), value))
            => result = NoError

(***************************************************************************)
(* C12 as stated.  Open-world property checking: the keys of               *)
(* descriptor.shape are the only properties of the value that the two      *)
(* validators inspect, so two object values that agree on every property   *)
(* named in shape get the same result, whatever other properties they have *)
(* or lack.                                                                *)
(***************************************************************************)
ShapeKeys(opts) == {opts.shape[i].key : i \in 1..Len(opts.shape)}

RequiredKeys(opts) == {opts.required[i] : i \in 1..Len(opts.required)}

\* the objects a and b have the same properties among keys, with the same values
AgreeOn(a, b, keys) ==
    /\ a.t = "object" /\ b.t = "object"
    /\ \A k \in keys : HasKey(a, k) = HasKey(b, k) /\ Get(a, k) = Get(b, k)

\* every other value that agrees with this call's on keys gets this call's result
SameResultOn(keys) ==
    /\ ObjectCall("shapeOf") =>
         \A other \in Objects :
            AgreeOn(value, other, keys)
                => validate_shapeOf(field, other, options).result = result
    /\ (Done("arrayOfShapes") /\ value.t = "array" /\ options # Undefined) =>
         \A n \in 1..Len(value.v) : \A other \in Items :
            AgreeOn(value.v[n], other, keys)
                => validate_arrayOfShapes(field, Arr([value.v EXCEPT ![n] = other]),
                                          options).result = result

C12_Original == SameResultOn(IF options = Undefined THEN {} ELSE ShapeKeys(options))

(***************************************************************************)
(* C12 amended.  The keys of descriptor.shape and the names listed in      *)
(* descriptor.required are the only properties of the value that the two   *)
(* validators inspect: two object values that agree on every property      *)
(* named in shape or in required get the same result, whatever other       *)
(* properties they have or lack.                                           *)
(***************************************************************************)
C12_OpenWorld ==
    SameResultOn(IF options = Undefined THEN {}
                 ELSE ShapeKeys(options) \cup RequiredKeys(options))

\* the value has a property `type` that the descriptor does not name
C12_Witness ==
    /\ ObjectCall("shapeOf")
    /\ options.shape = <<Entry("code", Tag("string"))>>
    /\ options.required = <<"code">>
    /\ value = ObjFrom(Str("EAN13"), Num(1))
    /\ validate_shapeOf(field, ObjFrom(Str("EAN13"), Absent), options).result = result
    /\ result = NoError

(***************************************************************************)
(* C13.  validate_arrayOfShapes error location and fail-fast across        *)
(* elements: when the value is a non-empty array and the array-level       *)
(* predicate (if any) passes, the returned error concerns the element with *)
(* the smallest index i that has any violation; it carries field           *)
(* '<field>[i]' when that element is not an object and                     *)
(* '<field>[i].<property>' for every other violation, and no error is      *)
(* returned iff every element passes.                                      *)
(***************************************************************************)
\* what the per-item logic finds for item n (0-based) taken alone
ItemAlone(n) ==
    arrayOfShapes_Items(field, SubSeq(value.v, 1, n + 1), options, n, <<>>).result

C13_FirstViolatingItem ==
    (/\ Done("arrayOfShapes") /\ value.t = "array" /\ options # Undefined
     /\ Len(value.v) > 0 /\ ArrayLevelPasses)
        => LET bad == {n \in 0..(Len(value.v) - 1) : ItemAlone(n) # NoError}
               first == CHOOSE n \in bad : \A m \in bad : n <= m
               at == field \o "[" \o ToString(first) \o "]"
           IN  IF bad = {} THEN result = NoError
               ELSE /\ result.kind = "error"
                    /\ result.message = ItemAlone(first).message
                    /\ IF value.v[first + 1].t # "object"
                       THEN result.field = at
                       ELSE \E k \in ShapeKeys(options) \cup RequiredKeys(options) :
                                result.field = at \o "." \o k

\* the first item passes, the second is not an object
C13_Witness ==
    /\ ItemCall(0) /\ ItemsPass(1)
    /\ Len(value.v) = 2 /\ value.v[2] = Num(1)
    /\ field = "items"
    /\ result = ValidationError("items[1]", "Array item must be an object")

(***************************************************************************)
(* C14.  validate_arrayOfShapes array-level predicate: for a non-empty     *)
(* array, the array-level predicate is invoked exactly once with the whole *)
(* array before any element is examined or any per-property predicate is   *)
(* invoked; a falsy result returns 'Array failed custom validation' and a  *)
(* thrown fault returns 'Array validation error: <message>', both with     *)
(* field equal to the call's field name, and in either case no element is  *)
(* checked.                                                                *)
(***************************************************************************)
C14_ArrayLevelPredicate ==
    (/\ Done("arrayOfShapes") /\ value.t = "array" /\ options # Undefined
     /\ Len(value.v) > 0 /\ Validator(options.validators, "_array") # "none")
        => LET out == CallPredicate(Validator(options.validators, "_array"), value)
           IN  /\ Len(calls) >= 1
               /\ calls[1] = [key |-> "_array", index |-> -1, arg |-> value, out |-> out]
               /\ \A i \in 2..Len(calls) : calls[i].key # "_array"
               /\ (out.kind = "return" /\ out.v \in FalsyValues)
                    => /\ result = ValidationError(field, "Array failed custom validation")
                       /\ Len(calls) = 1
               /\ out.kind = "throw"
                    => /\ result = ValidationError(field, "Array validation error: "
                            \o (IF out.isError THEN out.message ELSE "Unknown error"))
                       /\ Len(calls) = 1

\* the array-level predicate returns false on an array whose first item is not
\* an object
C14_Witness ==
    /\ Done("arrayOfShapes") /\ value.t = "array" /\ options # Undefined
    /\ Len(value.v) = 2 /\ value.v[1] = Num(1)
    /\ Validator(options.validators, "_array") = "never"
    /\ Len(calls) = 1
    /\ result = ValidationError(field, "Array failed custom validation")

(***************************************************************************)
(* C15.  validate_arrayOfShapes treats an empty array as always valid: for *)
(* every descriptor, including one whose array-level predicate would       *)
(* return false or throw and one with a non-empty required list, the call  *)
(* on [] returns no error.                                                 *)
(***************************************************************************)
C15_EmptyArrayValid ==
    (Done("arrayOfShapes") /\ value = Arr(<<>>)) => (result = NoError /\ calls = <<>>)

\* [] with an array-level predicate that throws and a required list
C15_Witness ==
    /\ Done("arrayOfShapes") /\ value = Arr(<<>>) /\ options # Undefined
    /\ Validator(options.validators, "_array") = "throwError"
    /\ options.required = <<"code">>
    /\ result = NoError

(***************************************************************************)
(* C16.  The two shape validators apply the same per-property logic: for   *)
(* every object value v and every descriptor d without an array-level      *)
(* predicate, validate_arrayOfShapes(f, [v], d) returns an error iff       *)
(* validate_shapeOf(f, v, d) returns one, and the two errors have the same *)
(* message.                                                                *)
(***************************************************************************)
C16_SamePerPropertyLogic ==
    (ObjectCall("shapeOf") /\ Validator(options.validators, "_array") = "none")
        => LET single == validate_arrayOfShapes(field, Arr(<<value>>), options).result
           IN  /\ (single = NoError) <=> (result = NoError)
               /\ result # NoError => single.message = result.message


(***************************************************************************)
(* Vocabulary of the dispatcher's properties.                              *)
(***************************************************************************)
Validated == pc = "done" /\ op = "validate"

\* the positions <<field, rule>> of the schema
RulePositions ==
    UNION {{<<j, i>> : i \in 1..Len(schema[j].rules)} : j \in 1..Len(schema)}

\* what the rule at position p yields when it is run on its own on the record
RuleResult(p) ==
    LET f == schema[p[1]]
        r == f.rules[p[2]]
    IN  IF IsValidatorFunction(r.name)
        THEN ApplyRule(r.name, f.attr, Get(input, f.attr), r.options,
                       validationContext(input, FieldConfig(f.rules)).context).result
        ELSE NoError

FailingPositions == {p \in RulePositions : RuleResult(p) # NoError}

\* field order, then rule order
Precedes(p, q) == p[1] < q[1] \/ (p[1] = q[1] /\ p[2] < q[2])

Rank(p) == Cardinality({q \in FailingPositions : Precedes(q, p)}) + 1

\* C17: validate returns exactly the errors of the failing rules, one per
\* (field, rule) pair, in schema field order and within a field in rule
\* order; the list is empty iff no rule of any field yields an error.
C17_FlatOrderedErrors ==
    Validated /\ result = NoError =>
        /\ Len(errors) = Cardinality(FailingPositions)
        /\ \A p \in FailingPositions : errors[Rank(p)] = RuleResult(p)
        /\ (errors = <<>> <=> \A p \in RulePositions : RuleResult(p) = NoError)

\* reached: three errors from two fields, with a passing rule among them
C17_Witness ==
    /\ Validated
    /\ Len(errors) >= 3
    /\ errors[1].field # errors[Len(errors)].field
    /\ \E p \in RulePositions : RuleResult(p) = NoError /\ Rank(p) = 2

\* '', null, undefined and []
EmptyValues == {Undefined, Null, Str(""), Arr(<<>>)}

\* the record has no value under key: the key is absent or holds an empty value
NoValue(key) == key \notin DOMAIN input.v \/ input.v[key] \in EmptyValues

\* the field names listed by the options of an at_least_one_of rule
ListedFields(o) == {o.v.fields.v[i].v : i \in 1..Len(o.v.fields.v)}

\* the options carry no required_depends_on, or the record meets it
ConditionAbsentOrMet(o) ==
    \/ "required_depends_on" \notin DOMAIN o.v
    \/ LET d == o.v.required_depends_on
       IN  d.v.key.v \in DOMAIN input.v /\ input.v[d.v.key.v] = d.v.value

AtLeastOneError(attr) ==
    \E k \in 1..Len(errors) : errors[k] = ValidationError(attr, "At least one must be selected")

\* C18: a field carrying at_least_one_of gets the error 'At least one must
\* be selected' when no listed field has a value ('', null, undefined, [] or
\* absent) and required_depends_on is absent or met; it gets no such error
\* when any listed field has a value, 0 and false included.
C18_AtLeastOneOf ==
    Validated =>
        \A p \in RulePositions :
            LET f == schema[p[1]]
                r == f.rules[p[2]]
            IN  r.name = "at_least_one_of" =>
                  /\ ((\A key \in ListedFields(r.options) : NoValue(key))
                      /\ ConditionAbsentOrMet(r.options))
                        => AtLeastOneError(f.attr)
                  /\ (\E key \in ListedFields(r.options) : ~NoValue(key))
                        => ~AtLeastOneError(f.attr)

\* reached: the condition is met, tags is [], email is '', phone is absent,
\* and tags gets the error
C18_Witness ==
    /\ Validated
    /\ \E i \in 1..Len(schema[1].rules) :
          schema[1].rules[i] = Rule("at_least_one_of", OneOfGroupIfEnabled)
    /\ schema[1].attr = "tags"
    /\ input = Record(Arr(<<>>), Str(""), Str("1"))
    /\ AtLeastOneError("tags")

\* reached: tags is 0, every other listed field is empty, and no field gets
\* the error
C18_WitnessZero ==
    /\ Validated
    /\ \E p \in RulePositions : schema[p[1]].rules[p[2]].name = "at_least_one_of"
    /\ input = Record(Num(0), Str(""), Absent)
    /\ ~AtLeastOneError("tags") /\ ~AtLeastOneError("email")

\* the rules of a field include the rule `name` with options `opts`
HasRule(f, name, opts) == \E i \in 1..Len(f.rules) : f.rules[i] = Rule(name, opts)

\* the rules of a field include array: true or an array_items list
HasArrayValidation(f) ==
    \/ HasRule(f, "array", Bool(TRUE))
    \/ \E i \in 1..Len(f.rules) : f.rules[i].name = "array_items"

\* the record holds the expected value under the key of the condition
DependsOnMet(d) == d.v.key.v \in DOMAIN input.v /\ input.v[d.v.key.v] = d.v.value

\* the field is required: by required: true, or by a required_depends_on
\* whose condition the record meets
IsRequired(f) ==
    \/ HasRule(f, "required", Bool(TRUE))
    \/ \E i \in 1..Len(f.rules) :
          f.rules[i].name = "required_depends_on" /\ DependsOnMet(f.rules[i].options)

MissingRequiredError(attr) ==
    \E k \in 1..Len(errors) : errors[k] = ValidationError(attr, "Missing required field")

\* C19: a field that is required (required: true, or required_depends_on
\* with its condition met) and carries array: true or array_items gets
\* 'Missing required field' when its value is an empty array, and no such
\* error when the array has at least one item.
C19_RequiredArrays ==
    Validated =>
        \A j \in 1..Len(schema) :
            LET f == schema[j]
                v == Get(input, f.attr)
            IN  (IsRequired(f) /\ HasArrayValidation(f) /\ IsArray(v)) =>
                    (MissingRequiredError(f.attr) <=> Len(v.v) = 0)

\* reached: tags is required only through a met required_depends_on, carries
\* array_items, is [] and gets the error
C19_Witness ==
    /\ Validated
    /\ schema = <<Field("tags", <<Rule("required_depends_on", DependsOnEnable),
                                  Rule("array_items", Arr(<<Str("a")>>))>>)>>
    /\ input = Record(Arr(<<>>), Absent, Str("1"))
    /\ errors = <<ValidationError("tags", "Missing required field")>>

\* reached: tags carries required: true and array: true, holds one item and
\* gets no error
C19_WitnessItem ==
    /\ Validated
    /\ schema = <<Field("tags", <<Rule("required", Bool(TRUE)), Rule("array", Bool(TRUE))>>)>>
    /\ input = Record(Arr(<<Str("b")>>), Absent, Absent)
    /\ errors = <<>>

\* C20: validate leaves the record with exactly the keys and values it had
\* before the call, __fieldConfig not among them, and leaves the schema as
\* it was.
C20_InputReadOnly ==
    [][input' = input /\ schema' = schema /\ "__fieldConfig" \notin DOMAIN input'.v]_vars

\* reached: validate has built a context for the rules of two fields and
\* returned errors, and the record has no __fieldConfig key
C20_Witness ==
    /\ Validated
    /\ Len(schema) = 2
    /\ \A j \in 1..Len(schema) :
          \E i \in 1..Len(schema[j].rules) : IsValidatorFunction(schema[j].rules[i].name)
    /\ Len(errors) >= 2
    /\ DOMAIN input.v = {"tags", "email", "enable"}

(***************************************************************************)
(* Vocabulary of the properties of the rules called on their own.          *)
(***************************************************************************)
Called(o) == pc = "done" /\ op = o

\* the record's __fieldConfig carries a truthy array or array_items
ConfigHasArrayRule ==
    /\ "__fieldConfig" \in DOMAIN input.v
    /\ \E k \in {"array", "array_items"} \cap DOMAIN input.v["__fieldConfig"].v :
          input.v["__fieldConfig"].v[k] \notin FalsyValues

\* the value counts as missing for a required field: it is falsy, or it is
\* an empty array and the field carries an array rule
ValueMissing ==
    value \in FalsyValues \/ (value = Arr(<<>>) /\ ConfigHasArrayRule)

\* C21: validate_required_depends_on returns 'Missing required field' iff
\* input[options.key] strictly equals options.value and the field's value is
\* missing; when the dependent field differs, is absent, or options is
\* undefined it returns no error whatever the value is.
C21_RequiredDependsOn ==
    Called("required_depends_on") =>
        /\ result \in {NoError, ValidationError(field, "Missing required field")}
        /\ result # NoError <=>
              (options # Undefined /\ DependsOnMet(options) /\ ValueMissing)

\* reached: the dependent field holds the number 1, the expected value is
\* the number 1, the value is '' and the error is returned
C21_Witness ==
    /\ Called("required_depends_on")
    /\ options = Obj([key |-> Str("enable"), value |-> Num(1)])
    /\ Get(input, "enable") = Num(1)
    /\ value = Str("")
    /\ result = ValidationError(field, "Missing required field")

\* the number of letters of the string the call is about
StringLength == CHOOSE k \in 0..MaxStr : value = Str(Letters(k))

\* the call is about a non-empty string and a positive bound
LengthCase ==
    /\ value \in Strings /\ value # Str("")
    /\ options # Undefined /\ options.v > 0

\* C22: for a non-empty string and a positive bound n, validate_minLength
\* returns 'Field value is too short' iff the length is less than n and
\* validate_maxLength returns 'Field value is too long' iff the length is
\* greater than n; a length equal to n passes both.
C22_LengthBounds ==
    /\ (Called("minLength") /\ LengthCase) =>
          result = IF StringLength < options.v
                   THEN ValidationError(field, "Field value is too short")
                   ELSE NoError
    /\ (Called("maxLength") /\ LengthCase) =>
          result = IF StringLength > options.v
                   THEN ValidationError(field, "Field value is too long")
                   ELSE NoError

\* reached: a string of two letters passes minLength 2
C22_Witness ==
    /\ Called("minLength")
    /\ value = Str("aa")
    /\ options = Num(2)
    /\ result = NoError

\* how an item is shown in the message: strings in double quotes, numbers in
\* decimal, booleans and null by their names
Rendered(item) ==
    CASE item.t = "string" -> "\"" \o item.v \o "\""
      [] item.t = "number" -> ToString(item.v)
      [] item.t = "boolean" -> (IF item.v THEN "true" ELSE "false")
      [] item.t = "null" -> "null"

\* the item at position i of the value equals no allowed item
NonMatching(i) == \A k \in 1..Len(options.v) : options.v[k] # value.v[i]

\* the non-matching items from position i on, shown, in array order
RECURSIVE ListedFrom(_)
ListedFrom(i) ==
    IF i > Len(value.v) THEN <<>>
    ELSE (IF NonMatching(i) THEN <<Rendered(value.v[i])>> ELSE <<>>) \o ListedFrom(i + 1)

\* C23: for an array and an allowed list validate_array_items returns an
\* error iff some item equals no allowed item, and that single error lists
\* every such item in array order; an empty array or a falsy value yields
\* no error.
C23_ArrayItems ==
    Called("array_items") =>
        /\ (value \in FalsyValues \/ value = Arr(<<>>)) => result = NoError
        /\ (IsArray(value) /\ options # Undefined) =>
              result = IF \E i \in 1..Len(value.v) : NonMatching(i)
                       THEN ValidationError(field, "Array contains invalid items: "
                                                   \o Join(ListedFrom(1), ", "))
                       ELSE NoError

\* reached: of ['1', 'b'] neither item is allowed by ['a', 1], and both are
\* listed in array order
C23_Witness ==
    /\ Called("array_items")
    /\ value = Arr(<<Str("1"), Str("b")>>)
    /\ options = Arr(<<Str("a"), Num(1)>>)
    /\ result = ValidationError(field, "Array contains invalid items: \"1\", \"b\"")

\* C24: with options true validate_required returns 'Missing required
\* field' for every falsy value (undefined, null, '', 0 and false) and no
\* error for every truthy value that is not an array; with falsy options it
\* never returns an error.
C24_Required ==
    Called("required") =>
        /\ (options = Bool(TRUE) /\ value \in FalsyValues) =>
              result = ValidationError(field, "Missing required field")
        /\ (options = Bool(TRUE) /\ value \notin FalsyValues /\ ~IsArray(value)) =>
              result = NoError
        /\ options \in {Undefined, Bool(FALSE)} => result = NoError

\* reached: the number 0 is reported as missing
C24_Witness ==
    /\ Called("required")
    /\ options = Bool(TRUE)
    /\ value = Num(0)
    /\ result = ValidationError(field, "Missing required field")

(***************************************************************************)
(* Vocabulary of the order of a call of a shape rule, read off the         *)
(* invocation record and the error returned.                               *)
(***************************************************************************)
ShapeCallDone == pc = "done" /\ op \in {"shapeOf", "arrayOfShapes"}

\* the element the error is addressed to, -1 when it is not about an element
ErrorIndex ==
    IF value.t = "array" /\ \E n \in 0..(Len(value.v) - 1) :
                               StartsWith(result.field, ItemField(field, n))
    THEN CHOOSE n \in 0..(Len(value.v) - 1) : StartsWith(result.field, ItemField(field, n))
    ELSE -1

\* the position in shape of the property the error is about, 0 when the
\* error precedes every property of its element
ErrorPosition ==
    IF \E k \in 1..Len(options.shape) :
          StartsWith(result.message, "Property \"" \o options.shape[k].key \o "\"")
    THEN CHOOSE k \in 1..Len(options.shape) :
            StartsWith(result.message, "Property \"" \o options.shape[k].key \o "\"")
    ELSE 0

\* the position in shape of a property
Position(key) == CHOOSE k \in 1..Len(options.shape) : options.shape[k].key = key

\* the invocation c is of the predicate of a property, or of an element,
\* that comes after the place of the error
LaterThanError(c) ==
    /\ c.key # "_array"
    /\ \/ c.index > ErrorIndex
       \/ c.index = ErrorIndex /\ Position(c.key) > ErrorPosition

\* the invocation found a violation: the predicate returned a falsy value or threw
FailedCall(c) == c.out.kind = "throw" \/ c.out.v \in FalsyValues

\* C25: a call of validate_shapeOf that returns 'Missing required property'
\* has invoked no predicate, and in both validators no predicate of a later
\* property or element is invoked once a violation is found: an invocation
\* that fails is the last one, and no invocation is later than the place of
\* the error.
C25_FailFastHaltsPredicates ==
    /\ (/\ Done("shapeOf") /\ result.kind = "error"
        /\ StartsWith(result.message, "Missing required property")) => calls = <<>>
    /\ (ShapeCallDone /\ result.kind = "error") =>
          /\ \A i \in 1..(Len(calls) - 1) : ~FailedCall(calls[i])
          /\ \A i \in 1..Len(calls) : ~LaterThanError(calls[i])

\* reached: the predicate of code ran on the first item, the second item has
\* a code of the wrong type, and nothing ran on the second item
C25_Witness ==
    /\ Done("arrayOfShapes")
    /\ result.kind = "error"
    /\ Len(calls) > 0
    /\ \A i \in 1..Len(calls) : calls[i].index = 0
    /\ ErrorIndex = 1
    /\ StartsWith(result.message, "Property \"code\" must be")
    /\ Validator(options.validators, "code") = "identity"

\* the rules of a field include a rule of the given name
HasRuleNamed(f, name) == \E i \in 1..Len(f.rules) : f.rules[i].name = name

\* C26: for a field whose rules are required: true and arrayOfShapes, with
\* no array or array_items rule, validate on an empty array returns a
\* 'Missing required field' error for that field.
C26_RequiredEmptyArrayOfShapes ==
    Validated =>
        \A j \in 1..Len(schema) :
            (/\ HasRule(schema[j], "required", Bool(TRUE))
             /\ HasRuleNamed(schema[j], "arrayOfShapes")
             /\ ~HasArrayValidation(schema[j])
             /\ Get(input, schema[j].attr) = Arr(<<>>))
                => MissingRequiredError(schema[j].attr)

\* the error is addressed to the field attr or to a place inside its value
AddressedTo(e, attr) ==
    \/ e.field = attr
    \/ StartsWith(e.field, attr \o ".")
    \/ StartsWith(e.field, attr \o "[")

\* the errors addressed to attr, in the order returned
ErrorsOf(attr) == SelectSeq(errors, LAMBDA e : AddressedTo(e, attr))

\* the record holds no value under attr: the key is absent, or holds null,
\* undefined or ''
FieldMissing(attr) ==
    attr \notin DOMAIN input.v \/ input.v[attr] \in {Undefined, Null, Str("")}

\* C27: for a field whose rules are required: true and shapeOf or
\* arrayOfShapes, validate on a record where the field is absent, null,
\* undefined or '' returns exactly one error for the field, the 'Missing
\* required field' error of the presence rule.
C27_NoDoubleReporting ==
    Validated =>
        \A j \in 1..Len(schema) :
            (/\ HasRule(schema[j], "required", Bool(TRUE))
             /\ (HasRuleNamed(schema[j], "shapeOf") \/ HasRuleNamed(schema[j], "arrayOfShapes"))
             /\ FieldMissing(schema[j].attr))
                => ErrorsOf(schema[j].attr)
                      = <<ValidationError(schema[j].attr, "Missing required field")>>

\* reached: barcode is required, carries a shapeOf rule with a required
\* property, is absent from the record, and gets the one error
C27_Witness ==
    /\ Validated
    /\ Len(schema) = 1
    /\ HasRule(schema[1], "required", Bool(TRUE))
    /\ \E i \in 1..Len(schema[1].rules) :
          /\ schema[1].rules[i].name = "shapeOf"
          /\ schema[1].rules[i].options.required = <<"code">>
    /\ input = Obj(<<>>)
    /\ errors = <<ValidationError("barcode", "Missing required field")>>

\* the type shape declares for a property
DeclaredType(key) == options.shape[Position(key)].type

\* pv passes the check the validator that was called runs for the declared
\* type: a tag is compared with typeof; a list is a list of alternatives for
\* validate_arrayOfShapes when all its elements are primitive tags, and an
\* enum otherwise
PassesDeclaredCheck(type, pv) ==
    IF ~type.arr THEN TypeOf(pv) = type.tag
    ELSE IF op = "arrayOfShapes" /\ \A j \in 1..Len(type.items) : type.items[j] \in PrimitiveTags
         THEN \E j \in 1..Len(type.items) : type.items[j] = TypeOf(pv)
    ELSE pv.t = "string" /\ \E j \in 1..Len(type.items) : type.items[j] = pv.v

\* C28: in both validators the predicate of a property k is invoked only
\* with a value that passes the type, alternatives or enum check declared
\* for k, and a type or enum mismatch on k is reported without invoking k's
\* predicate on that element.
C28_TypeCheckPrecedesPredicate ==
    ShapeCallDone =>
        /\ \A i \in 1..Len(calls) :
              calls[i].key # "_array"
                 => PassesDeclaredCheck(DeclaredType(calls[i].key), calls[i].arg)
        /\ (result.kind = "error" /\ ErrorPosition # 0
            /\ StartsWith(result.message,
                          "Property \"" \o options.shape[ErrorPosition].key \o "\" must be"))
              => \A i \in 1..Len(calls) :
                    ~(/\ calls[i].key = options.shape[ErrorPosition].key
                      /\ calls[i].index = ErrorIndex)

\* reached: type, declared first, passed its check and its predicate; code,
\* declared 'number' with a predicate, holds a string and its predicate was
\* not invoked
C28_Witness ==
    /\ Done("shapeOf")
    /\ options # Undefined
    /\ options.shape = <<Entry("type", Tag("string")), Entry("code", Tag("number"))>>
    /\ Validator(options.validators, "code") = "identity"
    /\ value = ObjFrom(Str("EAN13"), Str("EAN13"))
    /\ Len(calls) = 1 /\ calls[1].key = "type"
    /\ result = ValidationError(field, "Property \"code\" must be of type number, got string")

\* the rule keys of the model's schemas that name no validate_<key> method of
\* the validator
UnknownKeys == {"label"}

\* the schema with the unknown rule keys removed
KnownOnly(fieldDescription) ==
    [j \in 1..Len(fieldDescription) |->
        Field(fieldDescription[j].attr,
              SelectSeq(fieldDescription[j].rules, LAMBDA r : r.name \notin UnknownKeys))]

\* C29: unknown rule keys are ignored by the dispatcher: a rule key with no
\* validate_<key> method contributes no result and raises nothing, and the
\* errors returned are those of the schema with such keys removed
C29_UnknownRulesIgnored ==
    Validated =>
        /\ \A p \in RulePositions :
              schema[p[1]].rules[p[2]].name \in UnknownKeys => RuleResult(p) = NoError
        /\ result = validate(input, KnownOnly(schema)).thrown
        /\ errors = validate(input, KnownOnly(schema)).errors

\* a schema with an unknown rule key, other rules of which report errors
C29_Witness ==
    /\ Validated
    /\ \E p \in RulePositions : schema[p[1]].rules[p[2]].name \in UnknownKeys
    /\ KnownOnly(schema) # schema
    /\ Len(errors) >= 2


\* the properties a schema field names: the keys of the shape and of the
\* required list of its shapeOf or arrayOfShapes rule
PropertiesOf(f) ==
    UNION {{r.options.shape[e].key : e \in 1..Len(r.options.shape)}
           \cup {r.options.required[q] : q \in 1..Len(r.options.required)} :
           r \in {f.rules[i] : i \in {n \in 1..Len(f.rules) :
                                       f.rules[n].name \in {"shapeOf", "arrayOfShapes"}}}}

\* the valid indices of the field's value when it is an array, counted from 0
IndicesOf(attr) ==
    IF IsArray(Get(input, attr)) THEN 0..(Len(Get(input, attr).v) - 1) ELSE {}

\* the addresses an error of the schema field f may carry
AddressesOf(f) ==
    {f.attr}
    \cup {f.attr \o "." \o p : p \in PropertiesOf(f)}
    \cup {f.attr \o "[" \o ToString(i) \o "]" : i \in IndicesOf(f.attr)}
    \cup {f.attr \o "[" \o ToString(i) \o "]." \o p :
              i \in IndicesOf(f.attr), p \in PropertiesOf(f)}

\* C30: every error validate returns is addressed to a schema field: its
\* field is a key k of the schema, or k followed by .<property>, [<index>] or
\* [<index>].<property>, the property a key of the field's shape or required
\* list and the index a valid index of the field's array value
C30_ErrorsAddressed ==
    Validated =>
        \A n \in 1..Len(errors) :
            \E j \in 1..Len(schema) : errors[n].field \in AddressesOf(schema[j])

\* an error addressed to a property of the second item of an array
C30_Witness ==
    /\ Validated
    /\ Len(errors) > 0
    /\ errors[Len(errors)].field = "barcode[1].code"

\* errors addressed to a property of an object, and to an item
C30_WitnessProperty ==
    Validated /\ \E n \in 1..Len(errors) : errors[n].field = "barcode.code"

C30_WitnessItem ==
    Validated /\ \E n \in 1..Len(errors) : errors[n].field = "barcode[1]"

====
